---- MODULE Spec2Model ----
(***************************************************************************)
(* Model of the implicit segment index of src/src/lib.rs: an array-backed  *)
(* binary tree (children of node i at 2i+1 and 2i+2) of ISegment           *)
(* aggregates, with new/build, append, update, query_bfs and query_dfs.    *)
(*                                                                         *)
(* Array indices are the source's zero-based indices; the tree is a TLA+   *)
(* sequence, so tree[i] of the source is tree[i + 1] here.  max, min and   *)
(* sum are f64 in the source; the model draws them from small integers,    *)
(* on which f64 addition, max and min are exact.                           *)
(***************************************************************************)
EXTENDS Integers, Sequences, FiniteSets, TLC

\* Bounds of the model.
MaxLeaves == 3
MaxOps == 2

\* Bucket widths: one time unit, or wider (a query can end inside a bucket).
Widths == {1, 2}

\* Where the first bucket starts: at 0, where the default span lies, or after it.
Starts == {0, 1}

\* Leaf values: below 0 and above 0.
Vals == {-1, 2}

VARIABLES pc, tree, fault, values, appended, ops, op, res

vars == <<pc, tree, fault, values, appended, ops, op, res>>

----------------------------------------------------------------------------
\* Span, ISegment and their defaults.

Span(s, e) == [start |-> s, end |-> e]

DefaultSpan == Span(0, 0)

ISegment(sp, c, mx, mn, sm) == [span |-> sp, count |-> c, max |-> mx, min |-> mn, sum |-> sm]

DefaultSegment == ISegment(DefaultSpan, 0, 0, 0, 0)

\* f64::max and f64::min, usize::min and usize::max
Max(a, b) == IF a >= b THEN a ELSE b

Min(a, b) == IF a <= b THEN a ELSE b

combine(left, right) ==
    ISegment(Span(left.span.start, right.span.end),
             left.count + right.count,
             Max(left.max, right.max),
             Min(left.min, right.min),
             left.sum + right.sum)

\* Option<ISegment>
None == [some |-> FALSE, seg |-> DefaultSegment]

Some(s) == [some |-> TRUE, seg |-> s]

----------------------------------------------------------------------------
\* The Vec<ISegment> with its bounds checks: an index past the end panics.

NoFault == "none"

OutOfBounds == "index_out_of_bounds"

SubOverflow == "subtract_with_overflow"

Mem(t) == [tree |-> t, fault |-> NoFault]

\* tree[i] as an rvalue (guarded by Touch where the source does not guard it)
Read(st, i) == IF i < Len(st.tree) THEN st.tree[i + 1] ELSE DefaultSegment

\* the bounds check of every tree[i], i \in idx
Touch(st, idx) ==
    IF st.fault = NoFault /\ \E i \in idx : i >= Len(st.tree)
    THEN [st EXCEPT !.fault = OutOfBounds]
    ELSE st

\* tree[i] = v
Write(st, i, v) ==
    IF st.fault # NoFault THEN st
    ELSE IF i < Len(st.tree) THEN [st EXCEPT !.tree[i + 1] = v]
    ELSE [st EXCEPT !.fault = OutOfBounds]

\* vec![ISegment::default(); n]
Defaults(n) == [i \in 1..n |-> DefaultSegment]

\* Vec::resize(n, ISegment::default()) for n >= len
Resize(t, n) == t \o Defaults(n - Len(t))

----------------------------------------------------------------------------
\* new and build

RECURSIVE Pow2(_)
Pow2(k) == IF k = 0 THEN 1 ELSE 2 * Pow2(k - 1)

\* (n as f64).log2().ceil() as u32: log2(0) is -inf, and the cast saturates to 0
RECURSIVE CeilLog2From(_, _)
CeilLog2From(n, k) == IF Pow2(k) >= n THEN k ELSE CeilLog2From(n, k + 1)

CeilLog2(n) == CeilLog2From(n, 0)

tree_size(n) == 2 * Pow2(CeilLog2(n)) - 1

RECURSIVE build(_, _, _, _, _)
build(st, vals, index, left, right) ==
    IF left = right
    THEN IF left < Len(vals) THEN Write(st, index, vals[left + 1]) ELSE st
    ELSE LET mid == left + (right - left) \div 2
             s1 == build(st, vals, index * 2 + 1, left, mid)
             s2 == build(s1, vals, index * 2 + 2, mid + 1, right)
             left_child == Read(s2, index * 2 + 1)
             right_child == Read(s2, index * 2 + 2)
         IN  Write(Touch(s2, {index * 2 + 1, index * 2 + 2}), index,
                   combine(left_child, right_child))

\* new with build run over the padded range 0 .. 2^k - 1 instead of 0 .. n - 1
new_padded(vals) ==
    build(Mem(Defaults(tree_size(Len(vals)))), vals, 0, 0, Pow2(CeilLog2(Len(vals))) - 1)

\* ISegmentIndex::new for a non-empty batch
new(vals) == build(Mem(Defaults(tree_size(Len(vals)))), vals, 0, 0, Len(vals) - 1)

----------------------------------------------------------------------------
\* append

\* the loop "while new_value_index > 0" that recomputes the ancestors
RECURSIVE append_ancestors(_, _)
append_ancestors(st, new_value_index) ==
    IF new_value_index > 0
    THEN LET parent == (new_value_index - 1) \div 2
             left_child_index == parent * 2 + 1
             right_child_index == parent * 2 + 2
         IN  append_ancestors(
                 Write(Touch(st, {left_child_index, right_child_index}), parent,
                       combine(Read(st, left_child_index), Read(st, right_child_index))),
                 parent)
    ELSE st

append(t, value) ==
    LET tree_size_ == Len(t)
        new_value_index == (tree_size_ + 1) \div 2
        grown == IF new_value_index * 2 >= tree_size_
                 THEN Resize(t, tree_size_ * 2 + 1)
                 ELSE t
    IN  append_ancestors(Write(Mem(grown), new_value_index, value), new_value_index)

----------------------------------------------------------------------------
\* update

RECURSIVE update_recursive(_, _, _, _)
update_recursive(st, node_index, target_start, value) ==
    IF st.fault # NoFault THEN st
    ELSE IF node_index >= Len(st.tree) THEN Touch(st, {node_index})
    ELSE LET node == Read(st, node_index) IN
         IF target_start >= node.span.start /\ target_start <= node.span.end
         THEN IF node.span.start = node.span.end
              THEN Write(st, node_index, value)
              ELSE LET left_child_index == node_index * 2 + 1
                       right_child_index == node_index * 2 + 2
                       s1 == update_recursive(st, left_child_index, target_start, value)
                       s2 == update_recursive(s1, right_child_index, target_start, value)
                       left_child == Read(s2, left_child_index)
                       right_child == Read(s2, right_child_index)
                   IN  Write(Touch(s2, {left_child_index, right_child_index}), node_index,
                             ISegment(Span(left_child.span.start, right_child.span.end),
                                      left_child.count + right_child.count,
                                      Max(left_child.max, right_child.max),
                                      Min(left_child.min, right_child.min),
                                      left_child.sum + right_child.sum))
         ELSE st

update(t, target_start, value) == update_recursive(Mem(t), 0, target_start, value)

----------------------------------------------------------------------------
\* query_bfs and query_dfs

no_overlap(query_span, node) ==
    query_span.end < node.span.start \/ node.span.end < query_span.start

\* total overlap with || written for &&
total_overlap_either(query_span, node) ==
    query_span.start <= node.span.start \/ node.span.end <= query_span.end

total_overlap(query_span, node) ==
    query_span.start <= node.span.start /\ node.span.end <= query_span.end

\* the accumulation of a totally overlapped node into result
bfs_accumulate(result, node) ==
    IF result.some
    THEN Some(ISegment(Span(Min(result.seg.span.start, node.span.start),
                            Max(result.seg.span.start, node.span.end)),
                       result.seg.count + node.count,
                       Max(result.seg.max, node.max),
                       Min(result.seg.min, node.min),
                       result.seg.sum + node.sum))
    ELSE Some(node)

\* Last and Front of a non-empty queue
Last(q) == q[Len(q)]

Front(q) == SubSeq(q, 1, Len(q) - 1)

\* the loop with pop_back written for pop_front
RECURSIVE bfs_loop_pop_back(_, _, _, _)
bfs_loop_pop_back(t, query_span, queue, result) ==
    IF queue = <<>> THEN [result |-> result, early |-> FALSE, left |-> <<>>]
    ELSE LET i == Last(queue)
             rest == Front(queue)
         IN  IF i >= Len(t) THEN [result |-> result, early |-> TRUE, left |-> rest]
             ELSE IF no_overlap(query_span, t[i + 1])
                  THEN bfs_loop_pop_back(t, query_span, rest, result)
             ELSE IF total_overlap(query_span, t[i + 1])
                  THEN bfs_loop_pop_back(t, query_span, rest, bfs_accumulate(result, t[i + 1]))
             ELSE bfs_loop_pop_back(t, query_span, rest \o <<i * 2 + 1, i * 2 + 2>>, result)

\* the loop "while let Some(i) = queue.pop_front()"; early records that the
\* result was returned from inside the loop, with nodes still queued
RECURSIVE bfs_loop(_, _, _, _)
bfs_loop(t, query_span, queue, result) ==
    IF queue = <<>> THEN [result |-> result, early |-> FALSE, left |-> <<>>]
    ELSE LET i == Head(queue)
             rest == Tail(queue)
         IN  IF i >= Len(t) THEN [result |-> result, early |-> TRUE, left |-> rest]
             ELSE IF no_overlap(query_span, t[i + 1])
                  THEN bfs_loop(t, query_span, rest, result)
             ELSE IF total_overlap(query_span, t[i + 1])
                  THEN bfs_loop(t, query_span, rest, bfs_accumulate(result, t[i + 1]))
             ELSE bfs_loop(t, query_span, rest \o <<i * 2 + 1, i * 2 + 2>>, result)

query_bfs(t, query_span) == bfs_loop(t, query_span, <<0>>, None).result

RECURSIVE query_dfs(_, _, _)
query_dfs(t, index, query_span) ==
    IF index >= Len(t) THEN None
    ELSE IF no_overlap(query_span, t[index + 1]) THEN None
    ELSE IF total_overlap(query_span, t[index + 1]) THEN Some(t[index + 1])
    ELSE LET left_res == query_dfs(t, index * 2 + 1, query_span)
             right_res == query_dfs(t, index * 2 + 2, query_span)
         IN  IF left_res.some /\ right_res.some
             THEN Some(ISegment(Span(left_res.seg.span.start, right_res.seg.span.end),
                                left_res.seg.count + right_res.seg.count,
                                Max(left_res.seg.max, right_res.seg.max),
                                Min(left_res.seg.min, right_res.seg.min),
                                left_res.seg.sum + right_res.seg.sum))
             ELSE IF left_res.some THEN left_res
             ELSE IF right_res.some THEN right_res
             ELSE None

----------------------------------------------------------------------------
\* Inputs: ascending, contiguous, gapless leaves, one sample (count 1) each,
\* all buckets of one index of the same width.

Leaf(s, e, v) == ISegment(Span(s, e), 1, v, v, v)

RECURSIVE Batches(_, _, _)
Batches(n, s, w) ==
    IF n = 0 THEN {<<>>}
    ELSE UNION {{<<Leaf(s, s + w, v)>> \o b : b \in Batches(n - 1, s + w, w)} : v \in Vals}

\* the leaves handed to the index so far
Stored == values \o appended

CoveredStart == Stored[1].span.start

CoveredEnd == Stored[Len(Stored)].span.end

Width == Stored[1].span.end - Stored[1].span.start

NoOp == [name |-> "none", span |-> DefaultSpan, key |-> 0, value |-> DefaultSegment]

NoRes == [dfs |-> None, bfs |-> None]

----------------------------------------------------------------------------
\* The state machine.

Init ==
    /\ pc = "start"
    /\ tree = <<>>
    /\ fault = NoFault
    /\ values = <<>>
    /\ appended = <<>>
    /\ ops = 0
    /\ op = NoOp
    /\ res = NoRes

\* ISegmentIndex::new(values).  On an empty batch values.len() - 1 underflows:
\* a build with overflow checks panics there; one without wraps to usize::MAX
\* and build then indexes tree[usize::MAX] in a tree of length 1.
CallNew ==
    /\ pc = "start"
    /\ \E n \in 0..MaxLeaves : \E s \in Starts : \E w \in Widths :
       \E b \in Batches(n, s, w) :
          /\ values' = b
          /\ IF n = 0
             THEN /\ s = 0 /\ w = 1
                  /\ tree' = Defaults(tree_size(0))
                  /\ fault' \in {SubOverflow, OutOfBounds}
             ELSE /\ tree' = new(b).tree
                  /\ fault' = new(b).fault
    /\ pc' = "ready"
    /\ op' = [NoOp EXCEPT !.name = "new"]
    /\ res' = NoRes
    /\ UNCHANGED <<appended, ops>>

CallAppend ==
    /\ pc = "ready" /\ fault = NoFault
    /\ ops < MaxOps
    /\ \E v \in Vals :
          LET value == Leaf(CoveredEnd, CoveredEnd + Width, v)
              st == append(tree, value)
          IN  /\ tree' = st.tree
              /\ fault' = st.fault
              /\ appended' = Append(appended, value)
              /\ op' = [NoOp EXCEPT !.name = "append", !.value = value]
    /\ res' = NoRes
    /\ ops' = ops + 1
    /\ UNCHANGED <<pc, values>>

\* update(target_start, value) keyed by the start of a stored leaf; a panic
\* unwinds out of update, and the index is not used after it.
CallUpdate ==
    /\ pc = "ready" /\ fault = NoFault
    /\ ops < MaxOps
    /\ \E k \in 1..Len(Stored) : \E v \in Vals :
          LET target_start == Stored[k].span.start
              value == Leaf(Stored[k].span.start, Stored[k].span.end, v)
              st == update(tree, target_start, value)
          IN  /\ tree' = IF st.fault = NoFault THEN st.tree ELSE tree
              /\ fault' = st.fault
              /\ op' = [NoOp EXCEPT !.name = "update", !.key = target_start, !.value = value]
    /\ ops' = ops + 1
    /\ res' = NoRes
    /\ UNCHANGED <<pc, values, appended>>

\* A query leaves the index as it is: what can follow the query is what can
\* follow the state it is called in, so the state holding its results has no
\* successor of its own.
CallQuery ==
    /\ pc = "ready" /\ fault = NoFault
    /\ \E lo \in 0..(CoveredEnd + 1) : \E hi \in lo..(CoveredEnd + 1) :
          /\ op' = [NoOp EXCEPT !.name = "query", !.span = Span(lo, hi)]
          /\ res' = [dfs |-> query_dfs(tree, 0, Span(lo, hi)),
                     bfs |-> query_bfs(tree, Span(lo, hi))]
    /\ pc' = "queried"
    /\ UNCHANGED <<tree, fault, values, appended, ops>>

Next == CallNew \/ CallAppend \/ CallUpdate \/ CallQuery

Spec == Init /\ [][Next]_vars

----------------------------------------------------------------------------
\* What the properties below speak of.

\* the aggregate fields of a segment
Agg(seg) == <<seg.count, seg.sum, seg.min, seg.max>>

\* the fold of leaves, in order, with combine
RECURSIVE FoldFrom(_, _)
FoldFrom(acc, leaves) ==
    IF leaves = <<>> THEN acc ELSE FoldFrom(combine(acc, Head(leaves)), Tail(leaves))

Fold(leaves) == FoldFrom(Head(leaves), Tail(leaves))

\* the half-open spans [lo,hi) and leaf.span intersect
Intersects(leaf, q) == leaf.span.start < q.end /\ q.start < leaf.span.end

Hit(q) == SelectSeq(Stored, LAMBDA leaf : Intersects(leaf, q))

\* the index came from new on a non-empty batch, followed by appends only
Built == values # <<>> /\ fault = NoFault /\ ops = Len(appended)

\* ... by new alone
BuiltByNew == Built /\ ops = 0

Queried == pc = "queried"

FullSpan == Span(CoveredStart, CoveredEnd)

\* C1: on an index built by new, a query [lo,hi) with lo < hi inside the
\* covered span returns, from query_dfs and from query_bfs, a segment whose
\* count, sum, min and max are those of the fold with combine of the leaves
\* that intersect [lo,hi).
C1_QueryBuildConsistency ==
    (/\ Queried /\ BuiltByNew
     /\ op.span.start < op.span.end
     /\ CoveredStart <= op.span.start /\ op.span.end <= CoveredEnd)
    => /\ res.dfs.some /\ Agg(res.dfs.seg) = Agg(Fold(Hit(op.span)))
       /\ res.bfs.some /\ Agg(res.bfs.seg) = Agg(Fold(Hit(op.span)))

\* C3: after new on the first n leaves and one append for each of the other
\* k >= 1, a query of the full covered span has the count, sum, min and max
\* of the same query on the index that new builds from all n + k leaves.
C3_AppendIncrementality ==
    (Queried /\ Built /\ appended # <<>> /\ op.span = FullSpan)
    => LET whole == query_dfs(new(Stored).tree, 0, FullSpan)
       IN  /\ res.dfs.some = whole.some /\ Agg(res.dfs.seg) = Agg(whole.seg)
           /\ res.bfs.some = whole.some /\ Agg(res.bfs.seg) = Agg(whole.seg)

\* C7: on an index made by new and appends, no operation reads or writes
\* tree[i] with i >= tree.len().
C7_NoOutOfBounds == values # <<>> => fault # OutOfBounds

\* C8: after new and after every append, tree.len() is 2*2^k - 1 for the
\* smallest k with 2^k >= the number of leaves stored so far.
C8_ArrayLength == Built => Len(tree) = 2 * Pow2(CeilLog2(Len(Stored))) - 1

\* C9: on an index made by new and appends, a node with both children in
\* bounds and a child of count > 0 has the min and max of its children of
\* count > 0 alone: a count == 0 child does not pull them toward 0.
C9_PaddingExcluded ==
    Built =>
      \A i \in 0..(Len(tree) - 1) :
        (i * 2 + 2 < Len(tree)) =>
          LET l == tree[i * 2 + 2]
              r == tree[i * 2 + 3]
              n == tree[i + 1]
          IN  /\ (l.count > 0 /\ r.count > 0)
                   => n.min = Min(l.min, r.min) /\ n.max = Max(l.max, r.max)
              /\ (l.count > 0 /\ r.count = 0) => n.min = l.min /\ n.max = l.max
              /\ (l.count = 0 /\ r.count > 0) => n.min = r.min /\ n.max = r.max

\* C10: new on a batch of length 1 returns an array of length 1 holding the
\* leaf, and new on an empty batch returns an array of length 1 holding a
\* default segment, without a fault.
C10_SizingSmall ==
    (op.name = "new" /\ Len(values) <= 1)
    => /\ fault = NoFault
       /\ Len(tree) = 1
       /\ tree[1] = IF values = <<>> THEN DefaultSegment ELSE values[1]

\* the queue that query_bfs leaves behind when it returns
Bfs == bfs_loop(tree, op.span, <<0>>, None)

\* C2: on an index made by new and appends, for a query span with
\* start <= end, query_dfs(0, span) and query_bfs(span) are both None or both
\* Some with equal count, sum, min and max; and when query_bfs returns on
\* popping an index >= tree.len(), no index still queued is in bounds.
C2_DfsBfsEquivalence ==
    (Queried /\ Built)
    => /\ res.dfs.some = res.bfs.some
       /\ Agg(res.dfs.seg) = Agg(res.bfs.seg)
       /\ Bfs.early => \A k \in 1..Len(Bfs.left) : Bfs.left[k] >= Len(tree)

\* query_bfs returned early with indices still queued, after accumulating
\* two nodes or more
C2_Witness ==
    /\ Queried /\ Built
    /\ Bfs.early /\ Bfs.left # <<>>
    /\ res.bfs.some /\ res.bfs.seg.count >= 2

RECURSIVE SumOf(_)
SumOf(leaves) == IF leaves = <<>> THEN 0 ELSE Head(leaves).sum + SumOf(Tail(leaves))

MaxOf(leaves) == CHOOSE m \in {leaves[k].max : k \in 1..Len(leaves)} :
                    \A k \in 1..Len(leaves) : leaves[k].max <= m

MinOf(leaves) == CHOOSE m \in {leaves[k].min : k \in 1..Len(leaves)} :
                    \A k \in 1..Len(leaves) : leaves[k].min >= m

\* C5: after new on n >= 1 contiguous leaves of count 1, the root has
\* count n, the sum of the leaf sums, the maximum of the leaf maxes, the
\* minimum of the leaf mins and the span [first.start, last.end).
C5_BuildCorrectness ==
    (op.name = "new" /\ values # <<>>)
    => /\ fault = NoFault
       /\ tree[1].count = Len(values)
       /\ tree[1].sum = SumOf(values)
       /\ tree[1].max = MaxOf(values)
       /\ tree[1].min = MinOf(values)
       /\ tree[1].span = Span(values[1].span.start, values[Len(values)].span.end)

\* new on three leaves, all above 0, in an array of seven slots: two slots
\* stay default
C5_Witness ==
    /\ op.name = "new" /\ Len(values) = 3 /\ Len(tree) = 7
    /\ \A k \in 1..3 : values[k].min > 0
    /\ tree[6] = DefaultSegment /\ tree[7] = DefaultSegment
    /\ tree[1].count = 3

\* C6: on an index built by new, a query [lo,hi) with lo < hi and
\* hi <= first.start or lo >= last.end returns None from query_dfs and from
\* query_bfs.
C6_OutsideIsNone ==
    (/\ Queried /\ BuiltByNew
     /\ op.span.start < op.span.end
     /\ (op.span.end <= CoveredStart \/ op.span.start >= CoveredEnd))
    => ~res.dfs.some /\ ~res.bfs.some

\* a query that starts where the last of three leaves ends, the last leaf
\* having default slots for children
C6_Witness ==
    /\ Queried /\ BuiltByNew /\ Len(values) = 3
    /\ op.span.start = CoveredEnd /\ op.span.start < op.span.end
    /\ ~res.dfs.some /\ ~res.bfs.some

\* the slot where build puts leaf k (from 0) of a batch
RECURSIVE leaf_slot(_, _, _, _)
leaf_slot(index, left, right, k) ==
    IF left = right THEN index
    ELSE LET mid == left + (right - left) \div 2
         IN  IF k <= mid THEN leaf_slot(index * 2 + 1, left, mid, k)
             ELSE leaf_slot(index * 2 + 2, mid + 1, right, k)

LeafSlots == {leaf_slot(0, 0, Len(values) - 1, k) : k \in 0..(Len(values) - 1)}

RECURSIVE PathToRoot(_)
PathToRoot(i) == IF i = 0 THEN {} ELSE {(i - 1) \div 2} \cup PathToRoot((i - 1) \div 2)

\* C4: on an index built by new, update(target_start, value) with
\* target_start the start of a leaf leaves that leaf's slot equal to value,
\* every other leaf slot unchanged, every ancestor of the slot equal to
\* combine(left child, right child), and the nodes off the path untouched.
C4_UpdateStep ==
    (BuiltByNew /\ op'.name = "update")
    => LET k == CHOOSE j \in 1..Len(values) : values[j].span.start = op'.key
           slot == leaf_slot(0, 0, Len(values) - 1, k - 1)
       IN  /\ fault' = NoFault
           /\ Len(tree') = Len(tree)
           /\ tree'[slot + 1] = op'.value
           /\ \A i \in PathToRoot(slot) :
                 tree'[i + 1] = combine(tree'[i * 2 + 2], tree'[i * 2 + 3])
           /\ \A i \in (0..(Len(tree) - 1)) \ (PathToRoot(slot) \cup {slot}) :
                 tree'[i + 1] = tree[i + 1]

C4_UpdateReplacesOneLeaf == [][C4_UpdateStep]_vars

====
